---- MODULE Spec2Model ----
(***************************************************************************)
(* Model of the dealership API server (backend/server.ts): the request     *)
(* handlers for cars, sales, rentals and repairs, the spreadsheet they     *)
(* read and write, and the helpers generateId and                          *)
(* validatePaginationParams / createPaginatedResponse.                     *)
(*                                                                         *)
(* Strings that the code takes apart (record IDs) are sequences of         *)
(* one-character strings; all other text values are TLA+ strings.          *)
(***************************************************************************)
EXTENDS Integers, Sequences, FiniteSets, Bags, TLC

\* ------------------------------------------------------------------ bounds
\* Total number of requests a behaviour starts.
MaxStarted == 3
\* Number of requests that may be in flight at once.
MaxInFlight == 2
\* Rental dates are days 1..MaxDay; the clock runs to MaxDay + 1.
MaxDay == 2
\* ID strings of the generateId specification: length and list length.
MaxIdLen == 2
MaxIds == 2
\* Sheets of the pagination specification hold up to MaxRows data rows,
\* and requests ask for pages 1..MaxPage with limits 1..MaxLimit.
MaxRows == 3
MaxPage == 3
MaxLimit == 3
\* Number of requests a behaviour of the update specification starts.
MaxUpdStarted == 2
\* Number of updates a behaviour of the merge specification performs.
MaxMerges == 1
\* Query strings of the validatePaginationParams specification: length.
MaxQueryLen == 4
\* AddCar specification: number of steps of the grid of percentages.
PercentGrid == 16
\* AddRental specification: number of existing rentals of the car.
MaxExisting == 2
\* Drive specification: number of uploads.
MaxUploads == 3

VARIABLES
    cars,       \* Cars sheet, data rows from row 2 on
    sales,      \* Sales sheet
    rentals,    \* Rentals sheet
    repairs,    \* Repairs sheet
    now,        \* the store's current day (drives the rental formulas)
    inflight,   \* bag of requests whose handler is suspended at an await
    last,       \* the request that responded most recently, with its response
    started,    \* number of requests started so far
    soldOK,     \* IDs of the cars for which POST /api/sales has responded 201
    existingIds,\* generateId specification: the ID column
    prefix,     \* generateId specification: the prefix
    newId,      \* generateId specification: the last ID generated
    query,      \* validatePaginationParams specification: req.query
    params,      \* validatePaginationParams specification: the result
    values,             \* AddCar: the three percentages of the form
    investmentSplit,    \* AddCar: the string submitted ("" before submit)
    existingRentals,    \* AddRental: the selected car's existingRentals
    requested,          \* AddRental: the interval of the form
    available,          \* AddRental: what isDateRangeAvailable gave
    documentsFolderId,  \* module variable of the server
    photosFolderId,     \* module variable of the server
    initPc,             \* where initializeDriveFolders is
    uploads             \* the folder of each upload made by POST /api/cars

clientVars == <<values, investmentSplit, existingRentals, requested, available>>

driveVars == <<documentsFolderId, photosFolderId, initPc, uploads>>

vars == <<cars, sales, rentals, repairs, now, inflight, last, started, soldOK,
          existingIds, prefix, newId, query, params, clientVars, driveVars>>

\* The forms of the client before anything is entered.
NoValues == [azamPercentage |-> 0, imranPercentage |-> 0, aliPercentage |-> 0]

NoInterval == [startDate |-> 0, returnDate |-> 0]

ClientInit ==
    /\ values = NoValues /\ investmentSplit = <<>>
    /\ existingRentals = <<>> /\ requested = NoInterval /\ available = ""

\* let documentsFolderId: string; let photosFolderId: string; -- declared
\* without a value; initializeDriveFolders() has been called and waits
\* for its first createOrGetFolder.
Undefined == "undefined"

DriveInit ==
    /\ documentsFolderId = Undefined /\ photosFolderId = Undefined
    /\ initPc = "documents" /\ uploads = <<>>

\* ------------------------------------------------------- string helpers
Digits == <<"0", "1", "2", "3", "4", "5", "6", "7", "8", "9">>

IsDigit(c) == \E d \in 1..10 : Digits[d] = c

DigitVal(c) == (CHOOSE d \in 1..10 : Digits[d] = c) - 1

Max(S) == CHOOSE x \in S : \A y \in S : y <= x

Min(a, b) == IF a <= b THEN a ELSE b

\* String.prototype.replace(pattern, '') with a string pattern: the first
\* occurrence of the pattern is removed, wherever it is.
Replace(id, pat) ==
    LET n == Len(pat)
        hits == {i \in 1..(Len(id) - n + 1) : SubSeq(id, i, i + n - 1) = pat}
    IN  IF hits = {} THEN id
        ELSE LET i == CHOOSE j \in hits : \A k \in hits : j <= k
             IN  SubSeq(id, 1, i - 1) \o SubSeq(id, i + n, Len(id))

\* Value of the first k characters of a digit string.
RECURSIVE DigitsValue(_, _)
DigitsValue(s, k) ==
    IF k = 0 THEN 0 ELSE 10 * DigitsValue(s, k - 1) + DigitVal(s[k])

\* parseInt(s): an optional sign, then the longest run of decimal digits;
\* NaN when there is no digit.
ParseInt(s) ==
    LET signed == Len(s) > 0 /\ s[1] \in {"-", "+"}
        body == IF signed THEN Tail(s) ELSE s
        run == {k \in 0..Len(body) : \A i \in 1..k : IsDigit(body[i])}
        k == Max(run)
    IN  IF k = 0 THEN [nan |-> TRUE, val |-> 0]
        ELSE [nan |-> FALSE,
              val |-> IF signed /\ s[1] = "-" THEN 0 - DigitsValue(body, k)
                      ELSE DigitsValue(body, k)]

\* x || 0 for a number x: NaN and 0 are falsy.
OrZero(p) == IF p.nan THEN 0 ELSE p.val

\* `${n}` for an integer n.
RECURSIVE NatToStr(_)
NatToStr(n) ==
    IF n < 10 THEN <<Digits[n + 1]>>
    ELSE NatToStr(n \div 10) \o <<Digits[(n % 10) + 1]>>

NumToStr(n) == IF n < 0 THEN <<"-">> \o NatToStr(0 - n) ELSE NatToStr(n)

SeqElems(s) == {s[i] : i \in 1..Len(s)}

\* ---- JavaScript numbers
\* An integer-valued Number of magnitude below 10^16, as sign and two
\* limbs of eight decimal digits: + or - (hi * 10^8 + lo).  Below 2^53
\* every integer is a Number; from 2^53 to 2^54 only the even ones are.
Zero == [neg |-> FALSE, hi |-> 0, lo |-> 0]

One == [neg |-> FALSE, hi |-> 0, lo |-> 1]

\* 2^53 = 9007199254740992
TwoTo53 == [neg |-> FALSE, hi |-> 90071992, lo |-> 54740992]

MagLess(a, b) == a.hi < b.hi \/ (a.hi = b.hi /\ a.lo < b.lo)

MagSucc(v) ==
    IF v.lo + 1 = 100000000 THEN [v EXCEPT !.hi = v.hi + 1, !.lo = 0]
    ELSE [v EXCEPT !.lo = v.lo + 1]

MagPred(v) ==
    IF v.lo = 0 THEN [v EXCEPT !.hi = v.hi - 1, !.lo = 99999999]
    ELSE [v EXCEPT !.lo = v.lo - 1]

\* The Number nearest to an integer: the integer itself when it is below
\* 2^53 or even; an odd integer from 2^53 on lies halfway between two
\* Numbers and goes to the one with the even significand, the multiple
\* of 4.
RoundToDouble(v) ==
    IF MagLess(v, TwoTo53) \/ v.lo % 2 = 0 THEN v
    ELSE IF v.lo % 4 = 1 THEN MagPred(v)
    ELSE MagSucc(v)

NumLess(a, b) ==
    IF a.neg # b.neg THEN a.neg
    ELSE IF a.neg THEN MagLess(b, a)
    ELSE MagLess(a, b)

\* Math.max(...numbers) of a non-empty list.
MathMax(S) == CHOOSE x \in S : \A y \in S : ~NumLess(x, y)

\* x + 1
PlusOne(v) ==
    IF v.neg
       THEN LET m == MagPred(v)
            IN  RoundToDouble([m EXCEPT !.neg = (m.hi # 0 \/ m.lo # 0)])
       ELSE RoundToDouble(MagSucc(v))

\* The last w decimal digits of n.
RECURSIVE LastDigits(_, _)
LastDigits(n, w) ==
    IF w = 0 THEN <<>>
    ELSE LastDigits(n \div 10, w - 1) \o <<Digits[(n % 10) + 1]>>

\* `${x}` for an integer-valued Number.
NumberToString(v) ==
    (IF v.neg THEN <<"-">> ELSE <<>>)
       \o (IF v.hi = 0 THEN NatToStr(v.lo)
           ELSE NatToStr(v.hi) \o LastDigits(v.lo, 8))

\* The Number of a run of k digits (at most 16 here) with its sign; NaN
\* for an empty run.
RunNumber(body, k, minus) ==
    LET kh == IF k > 8 THEN k - 8 ELSE 0
        digits == {[neg |-> FALSE,
                    hi |-> DigitsValue(body, kh),
                    lo |-> DigitsValue(SubSeq(body, kh + 1, k), k - kh)]}
        numbers == {[m EXCEPT !.neg = (minus /\ m # Zero)] :
                       m \in {RoundToDouble(v) : v \in digits}}
    IN  IF k = 0 THEN [nan |-> TRUE, num |-> Zero]
        ELSE [nan |-> FALSE, num |-> CHOOSE n \in numbers : TRUE]

\* parseInt(s) as a Number: an optional sign, then the longest run of
\* decimal digits, converted to the nearest Number; NaN when there is no
\* digit.
ParseIntNumber(s) ==
    LET signed == Len(s) > 0 /\ s[1] \in {"-", "+"}
        body == IF signed THEN Tail(s) ELSE s
        run == {k \in 0..Len(body) : \A i \in 1..k : IsDigit(body[i])}
    IN  CHOOSE p \in {RunNumber(b, k, signed /\ s[1] = "-") :
                          b \in {body}, k \in {Max(run)}} : TRUE

\* x || 0 for a Number x: NaN and 0 are falsy.
NumberOrZero(p) == IF p.nan THEN Zero ELSE p.num

\* generateId without the "+ 1" (a mutation of the code).
generateId_NoIncrement(pfx, ids) ==
    LET numbers == {NumberOrZero(ParseIntNumber(Replace(id, pfx))) :
                       id \in SeqElems(ids)}
        counter == IF Len(ids) > 0
                   THEN {NumberToString(m) :
                            m \in {MathMax(ns) : ns \in {numbers}}}
                   ELSE {NumberToString(One)}
    IN  pfx \o (CHOOSE c \in counter : TRUE)

\* The numbers of the IDs, their maximum and the counter are each
\* computed once.
generateId(pfx, ids) ==
    LET numbers == {NumberOrZero(ParseIntNumber(Replace(id, pfx))) :
                       id \in SeqElems(ids)}
        counter == IF Len(ids) > 0
                   THEN {NumberToString(PlusOne(m)) :
                            m \in {MathMax(ns) : ns \in {numbers}}}
                   ELSE {NumberToString(One)}
    IN  pfx \o (CHOOSE c \in counter : TRUE)

\* ------------------------------------------------------------ the store
\* A Cars row is (id, make, purchasePrice, statusCell): columns A, B, G and
\* the content the API has written into column I ("" when the API has
\* written nothing there, so that the cell shows the store's formula
\* result).  A Sales row is (id, carId, salePrice); a Rentals row is
\* (id, carId, startDate, returnDate, statusCell), the last being what the
\* API has written into column O; a Repairs row is (id, carId, cost).
\* Text and number cells hold the string a read returns for them, as a
\* sequence of characters; the other text and number columns are written
\* by the same expressions as the ones kept here.

C1 == <<"C", "1">>
C2 == <<"C", "2">>
CarIds == {C1, C2}
Days == 1..MaxDay

\* Rentals column O (formula): a rental is Active until its return date
\* has passed.
RentalStatus(r) == IF now > r.returnDate THEN "Completed" ELSE "Active"

\* What a read of column O returns for a row.
RentalStatusRead(row) ==
    IF row.statusCell # "" THEN row.statusCell ELSE RentalStatus(row)

ActiveRentalsOf(carId) ==
    {i \in 1..Len(rentals) :
        rentals[i].carId = carId /\ RentalStatusRead(rentals[i]) = "Active"}

\* Cars column I (formula): Sold when a Sales row references the car, On
\* Rent when an Active rental does, Available otherwise.
DerivedStatus(carId) ==
    IF \E i \in 1..Len(sales) : sales[i].carId = carId THEN "Sold"
    ELSE IF ActiveRentalsOf(carId) # {} THEN "On Rent"
    ELSE "Available"

\* What a read of column I returns for a row.
CurrentStatus(row) ==
    IF row.statusCell # "" THEN row.statusCell ELSE DerivedStatus(row.id)

\* sheets.spreadsheets.values.get over RANGES.CARS: row[0], row[1], row[6]
\* and row[8].
ReadCars ==
    [i \in 1..Len(cars) |->
        [id |-> cars[i].id, make |-> cars[i].make,
         purchasePrice |-> cars[i].purchasePrice,
         currentStatus |-> CurrentStatus(cars[i])]]

\* sheets.spreadsheets.values.get over RANGES.SALES.
ReadSales ==
    [i \in 1..Len(sales) |->
        [id |-> sales[i].id, carId |-> sales[i].carId,
         salePrice |-> sales[i].salePrice]]

\* sheets.spreadsheets.values.get over RANGES.REPAIRS.
ReadRepairs ==
    [i \in 1..Len(repairs) |->
        [id |-> repairs[i].id, carId |-> repairs[i].carId,
         cost |-> repairs[i].cost]]

\* sheets.spreadsheets.values.get over RANGES.RENTALS.
ReadRentals ==
    [i \in 1..Len(rentals) |->
        [id |-> rentals[i].id, carId |-> rentals[i].carId,
         startDate |-> rentals[i].startDate,
         returnDate |-> rentals[i].returnDate,
         rentalStatus |-> RentalStatusRead(rentals[i])]]

IdColumn(rows) == [i \in 1..Len(rows) |-> rows[i].id]

\* Array.prototype.findIndex(row => row[0] === id): 0-based, -1 if absent.
FindIndex(rows, id) ==
    LET hits == {i \in 1..Len(rows) : rows[i].id = id}
    IN  IF hits = {} THEN 0 - 1
        ELSE (CHOOSE i \in hits : \A j \in hits : i <= j) - 1

\* The inclusive interval overlap test.
Overlaps(s, e, r) == s <= r.returnDate /\ e >= r.startDate

\* ------------------------------------------------------------- requests
\* A request: its operation and body, where its handler is suspended (pc),
\* the handler's locals (carIndex, newId, status), and for the record what
\* it has done: the status it read for its car ("" before the read, "none"
\* when no row matched), the number of store writes it has issued, whether
\* an Active rental of its car overlapped its interval when it read the
\* car, the cars known sold when it started, and its response.  An update
\* request has the :id of its path, the fields of its body (updates) and
\* the locals rowIndex and currentRow; a create request has the local
\* existingIds, the ID column it read.

\* A body without any of the fields: each field holds nothing or one value.
NoUpdates ==
    [make |-> {}, purchasePrice |-> {}, carId |-> {}, salePrice |-> {},
     cost |-> {}, startDate |-> {}, returnDate |-> {}]

NoRequest ==
    [op |-> "none", pc |-> "start", carId |-> <<>>, startDate |-> 0,
     returnDate |-> 0, complete |-> TRUE,
     id |-> <<>>, updates |-> NoUpdates, rowIndex |-> 0 - 1,
     currentRow |-> [id |-> <<>>], existingIds |-> <<>>,
     carIndex |-> 0 - 1, newId |-> <<>>, status |-> "",
     writes |-> 0, hadActive |-> FALSE, overlapped |-> FALSE,
     after |-> {}, code |-> 0, page |-> 0, limit |-> 0,
     data |-> <<>>, totalItems |-> 0, totalPages |-> 0]

NewRequest(op, carId, s, e, complete) ==
    [NoRequest EXCEPT !.op = op, !.carId = carId, !.startDate = s,
                      !.returnDate = e, !.complete = complete,
                      !.after = soldOK]

InFlight == BagToSet(inflight)

CanStart == started < MaxStarted /\ BagCardinality(inflight) < MaxInFlight

\* In a sequential execution a request starts only when none is in flight.
SeqCanStart == started < MaxStarted /\ inflight = EmptyBag

\* res.status(code).json(...): the handler ends.
Respond(r, code) == last' = [r EXCEPT !.code = code, !.pc = "done"]

Suspend(r, pc) == inflight' = inflight (+) SetToBag({[r EXCEPT !.pc = pc]})

Resume(r, r2, pc) ==
    inflight' = (inflight (-) SetToBag({r})) (+) SetToBag({[r2 EXCEPT !.pc = pc]})

Finish(r) == inflight' = inflight (-) SetToBag({r})

\* The text and the number that the bodies of the create requests carry
\* for the text and number fields kept in the rows.
BodyText == <<"a">>

BodyNumber == <<"5">>

\* ------------------------------------------------- POST /api/cars
\* No file is attached, so the handler's first await is the read of the
\* Cars sheet from which it takes the existing IDs.
PostCarRead ==
    LET r == NewRequest("postCar", <<>>, 0, 0, TRUE)
    IN  /\ Suspend([r EXCEPT !.existingIds = IdColumn(ReadCars),
                             !.newId = generateId(<<"C">>, IdColumn(ReadCars))],
                   "append")
        /\ started' = started + 1
        /\ UNCHANGED <<cars, sales, rentals, repairs, now, last, soldOK,
                       existingIds, prefix, newId,
                   query, params, clientVars, driveVars>>

\* The append with an ID computed from the sheet as it is at the append (a
\* mutation of the code, which computes the ID before the append).
PostCarAppend_FreshId(r) ==
    /\ r.op = "postCar" /\ r.pc = "append"
    /\ cars' = Append(cars, [id |-> generateId(<<"C">>, IdColumn(ReadCars)),
                              make |-> BodyText,
                              purchasePrice |-> BodyNumber, statusCell |-> ""])
    /\ Finish(r)
    /\ Respond([r EXCEPT !.writes = r.writes + 1], 201)
    /\ UNCHANGED <<sales, rentals, repairs, now, started, soldOK,
                   existingIds, prefix, newId, query, params, clientVars, driveVars>>

\* values.append to RANGES.CARS with column I left null, then 201.
PostCarAppend(r) ==
    /\ r.op = "postCar" /\ r.pc = "append"
    /\ cars' = Append(cars, [id |-> r.newId, make |-> BodyText,
                              purchasePrice |-> BodyNumber, statusCell |-> ""])
    /\ Finish(r)
    /\ Respond([r EXCEPT !.writes = r.writes + 1], 201)
    /\ UNCHANGED <<sales, rentals, repairs, now, started, soldOK,
                   existingIds, prefix, newId,
                   query, params, clientVars, driveVars>>

\* ------------------------------------------------- POST /api/sales
\* The check of the status read for the car, with the comparison of the
\* rentals handler (a mutation of the code).
SaleBlocked_NotAvailable(status) == status # "Available"

\* The same check never taken (a mutation of the code).
SaleBlocked_Never(status) == FALSE

\* if (carRow[8] === 'Sold') return 400
SaleBlocked(status) == status = "Sold"

\* The handler without its "Car not found" return (a mutation of the code).
PostSaleRead_NoNotFound(carId, complete) ==
    LET r == NewRequest("postSale", carId, 0, 0, complete)
        rows == ReadCars
        i == FindIndex(rows, carId)
        seen == [r EXCEPT !.carIndex = i,
                          !.status = IF i = 0 - 1 THEN "none"
                                     ELSE rows[i + 1].currentStatus]
    IN  /\ started' = started + 1
        /\ IF ~complete
              THEN Respond(r, 400) /\ UNCHANGED inflight
           ELSE IF SaleBlocked(seen.status)
              THEN Respond(seen, 400) /\ UNCHANGED inflight
           ELSE Suspend(seen, "readSales") /\ UNCHANGED last
        /\ UNCHANGED <<cars, sales, rentals, repairs, now, soldOK,
                       existingIds, prefix, newId,
                   query, params, clientVars, driveVars>>

\* The required-field check, then the read of the Cars sheet and the two
\* checks on the row found.
PostSaleRead(carId, complete) ==
    LET r == NewRequest("postSale", carId, 0, 0, complete)
        rows == ReadCars
        i == FindIndex(rows, carId)
        seen == [r EXCEPT !.carIndex = i,
                          !.status = IF i = 0 - 1 THEN "none"
                                     ELSE rows[i + 1].currentStatus]
    IN  /\ started' = started + 1
        /\ IF ~complete
              THEN Respond(r, 400) /\ UNCHANGED inflight
           ELSE IF i = 0 - 1
              THEN Respond(seen, 404) /\ UNCHANGED inflight
           ELSE IF SaleBlocked(seen.status)
              THEN Respond(seen, 400) /\ UNCHANGED inflight
           ELSE Suspend(seen, "readSales") /\ UNCHANGED last
        /\ UNCHANGED <<cars, sales, rentals, repairs, now, soldOK,
                       existingIds, prefix, newId,
                   query, params, clientVars, driveVars>>

\* The read of the Sales sheet for the existing IDs.
PostSaleReadSales(r) ==
    /\ r.op = "postSale" /\ r.pc = "readSales"
    /\ Resume(r, [r EXCEPT !.existingIds = IdColumn(ReadSales),
                           !.newId = generateId(<<"S">>, IdColumn(ReadSales))],
              "append")
    /\ UNCHANGED <<cars, sales, rentals, repairs, now, last, started, soldOK,
                   existingIds, prefix, newId,
                   query, params, clientVars, driveVars>>

\* values.append to RANGES.SALES.
PostSaleAppend(r) ==
    /\ r.op = "postSale" /\ r.pc = "append"
    /\ sales' = Append(sales, [id |-> r.newId, carId |-> r.carId,
                                salePrice |-> BodyNumber])
    /\ Resume(r, [r EXCEPT !.writes = r.writes + 1], "update")
    /\ UNCHANGED <<cars, rentals, repairs, now, last, started, soldOK,
                   existingIds, prefix, newId,
                   query, params, clientVars, driveVars>>

\* values.update of Cars!I{carIndex + 2} with 'Sold', then 201.  carIndex
\* comes from the carResponse read at the start of the request.
PostSaleUpdate(r) ==
    /\ r.op = "postSale" /\ r.pc = "update"
    /\ IF r.carIndex # 0 - 1 /\ r.carIndex + 1 <= Len(cars)
          THEN cars' = [cars EXCEPT ![r.carIndex + 1].statusCell = "Sold"]
          ELSE UNCHANGED cars
    /\ Finish(r)
    /\ Respond([r EXCEPT !.writes = r.writes + 1], 201)
    /\ soldOK' = soldOK \cup {r.carId}
    /\ UNCHANGED <<sales, rentals, repairs, now, started,
                   existingIds, prefix, newId,
                   query, params, clientVars, driveVars>>

\* ------------------------------------------------- POST /api/rentals
\* The check of the status read for the car, with the comparison of the
\* sales handler (a mutation of the code).
RentalBlocked_OnlySold(status) == status = "Sold"

\* if (carRow[8] !== 'Available') return 400
RentalBlocked(status) == status # "Available"

\* The handler with the required-field check after the read of the Cars
\* sheet (a mutation of the code, which checks before any await).
PostRentalRead_ReadsFirst(carId, s, e, complete) ==
    LET r == NewRequest("postRental", carId, s, e, complete)
        rows == ReadCars
        i == FindIndex(rows, carId)
        active == ActiveRentalsOf(carId)
        seen == [r EXCEPT !.carIndex = i,
                          !.status = IF i = 0 - 1 THEN "none"
                                     ELSE rows[i + 1].currentStatus,
                          !.hadActive = active # {},
                          !.overlapped =
                              \E k \in active : Overlaps(s, e, rentals[k])]
    IN  /\ started' = started + 1
        /\ IF ~complete
              THEN Respond(seen, 400) /\ UNCHANGED inflight
           ELSE IF i = 0 - 1
              THEN Respond(seen, 404) /\ UNCHANGED inflight
           ELSE IF RentalBlocked(seen.status)
              THEN Respond(seen, 400) /\ UNCHANGED inflight
           ELSE Suspend(seen, "readRentals") /\ UNCHANGED last
        /\ UNCHANGED <<cars, sales, rentals, repairs, now, soldOK,
                       existingIds, prefix, newId,
                   query, params, clientVars, driveVars>>

\* The required-field check, then the read of the Cars sheet and the two
\* checks on the row found.
PostRentalRead(carId, s, e, complete) ==
    LET r == NewRequest("postRental", carId, s, e, complete)
        rows == ReadCars
        i == FindIndex(rows, carId)
        active == ActiveRentalsOf(carId)
        seen == [r EXCEPT !.carIndex = i,
                          !.status = IF i = 0 - 1 THEN "none"
                                     ELSE rows[i + 1].currentStatus,
                          !.hadActive = active # {},
                          !.overlapped =
                              \E k \in active : Overlaps(s, e, rentals[k])]
    IN  /\ started' = started + 1
        /\ IF ~complete
              THEN Respond(r, 400) /\ UNCHANGED inflight
           ELSE IF i = 0 - 1
              THEN Respond(seen, 404) /\ UNCHANGED inflight
           ELSE IF RentalBlocked(seen.status)
              THEN Respond(seen, 400) /\ UNCHANGED inflight
           ELSE Suspend(seen, "readRentals") /\ UNCHANGED last
        /\ UNCHANGED <<cars, sales, rentals, repairs, now, soldOK,
                       existingIds, prefix, newId,
                   query, params, clientVars, driveVars>>

\* The read of the Rentals sheet for the existing IDs.
PostRentalReadRentals(r) ==
    /\ r.op = "postRental" /\ r.pc = "readRentals"
    /\ Resume(r, [r EXCEPT !.existingIds = IdColumn(ReadRentals),
                           !.newId = generateId(<<"R", "N">>,
                                                IdColumn(ReadRentals))],
              "append")
    /\ UNCHANGED <<cars, sales, rentals, repairs, now, last, started, soldOK,
                   existingIds, prefix, newId,
                   query, params, clientVars, driveVars>>

\* values.append to RANGES.RENTALS, then 201.
PostRentalAppend(r) ==
    /\ r.op = "postRental" /\ r.pc = "append"
    /\ rentals' = Append(rentals, [id |-> r.newId, carId |-> r.carId,
                                   startDate |-> r.startDate,
                                   returnDate |-> r.returnDate,
                                   statusCell |-> ""])
    /\ Finish(r)
    /\ Respond([r EXCEPT !.writes = r.writes + 1], 201)
    /\ UNCHANGED <<cars, sales, repairs, now, started, soldOK,
                   existingIds, prefix, newId,
                   query, params, clientVars, driveVars>>

\* ------------------------------------------------- POST /api/repairs
\* The body is not validated: the first await is the read of the Repairs
\* sheet for the existing IDs.
PostRepairRead(carId) ==
    LET r == NewRequest("postRepair", carId, 0, 0, TRUE)
    IN  /\ Suspend([r EXCEPT !.existingIds = IdColumn(ReadRepairs),
                             !.newId = generateId(<<"R">>, IdColumn(ReadRepairs))],
                   "append")
        /\ started' = started + 1
        /\ UNCHANGED <<cars, sales, rentals, repairs, now, last, soldOK,
                       existingIds, prefix, newId, query, params, clientVars, driveVars>>

\* values.append to RANGES.REPAIRS, then 201.
PostRepairAppend(r) ==
    /\ r.op = "postRepair" /\ r.pc = "append"
    /\ repairs' = Append(repairs, [id |-> r.newId, carId |-> r.carId,
                                    cost |-> BodyNumber])
    /\ Finish(r)
    /\ Respond([r EXCEPT !.writes = r.writes + 1], 201)
    /\ UNCHANGED <<cars, sales, rentals, now, started, soldOK,
                   existingIds, prefix, newId, query, params, clientVars, driveVars>>

\* ------------------------------------------------- PUT /api/<entity>/:id
\* A value of the JSON body: a number (num, with its decimal text s) or
\* the string s.
JsonNumber(s) == [num |-> TRUE, s |-> s]

JsonString(s) == [num |-> FALSE, s |-> s]

\* Number(s) for a string: 0 for the empty string, the integer for a
\* decimal integer, NaN otherwise.
NumberOfString(s) ==
    LET neg == s # <<>> /\ s[1] = "-"
        body == IF neg THEN Tail(s) ELSE s
    IN  IF s = <<>> THEN [nan |-> FALSE, val |-> 0]
        ELSE IF body # <<>> /\ \A i \in 1..Len(body) : IsDigit(body[i])
           THEN [nan |-> FALSE,
                 val |-> IF neg THEN 0 - DigitsValue(body, Len(body))
                         ELSE DigitsValue(body, Len(body))]
        ELSE [nan |-> TRUE, val |-> 0]

\* Number(updates.x): NaN for an absent field (undefined).
NumberOfField(x) ==
    IF x = {} THEN [nan |-> TRUE, val |-> 0]
    ELSE NumberOfString((CHOOSE v \in x : TRUE).s)

\* Truthiness of a body value: 0 and '' are falsy.
Truthy(v) == IF v.num THEN NumberOfString(v.s).val # 0 ELSE v.s # <<>>

\* updates.x || currentRow[n]: the text the cell shows after the write.
OrCell(x, cur) ==
    IF x # {} /\ Truthy(CHOOSE v \in x : TRUE)
       THEN (CHOOSE v \in x : TRUE).s
       ELSE cur

\* Number(updates.x) || Number(currentRow[n]): the text the cell shows
\* after the write.  NaN is sent as null, and a null leaves the cell as it
\* is in the store (old).
NumberCell(x, cur, old) ==
    LET a == NumberOfField(x)
        res == IF ~a.nan /\ a.val # 0 THEN a ELSE NumberOfString(cur)
    IN  IF res.nan THEN old ELSE NumToStr(res.val)

\* updates.startDate || currentRow[4] for a date.
OrDate(x, cur) == IF x # {} THEN CHOOSE d \in x : TRUE ELSE cur

\* The handler without its "not found" return (a mutation of the code):
\* with rowIndex -1 it goes on to write at A1.
PutRead_NoNotFound(op, id, updates, rows) ==
    LET r == [NewRequest(op, <<>>, 0, 0, TRUE) EXCEPT
                 !.id = id, !.updates = updates]
        rowIndex == FindIndex(rows, id)
    IN  /\ started' = started + 1
        /\ Suspend([r EXCEPT !.rowIndex = rowIndex,
                             !.currentRow = IF rowIndex = 0 - 1 THEN r.currentRow
                                            ELSE rows[rowIndex + 1]],
                   "update")
        /\ UNCHANGED <<cars, sales, rentals, repairs, now, last, soldOK,
                       existingIds, prefix, newId, query, params, clientVars, driveVars>>

\* The handler up to its first await and the check that follows: the read
\* of the entity's sheet, findIndex, and 404 when no row matches.
PutRead(op, id, updates, rows) ==
    LET r == [NewRequest(op, <<>>, 0, 0, TRUE) EXCEPT
                 !.id = id, !.updates = updates]
        rowIndex == FindIndex(rows, id)
    IN  /\ started' = started + 1
        /\ IF rowIndex = 0 - 1
              THEN Respond(r, 404) /\ UNCHANGED inflight
              ELSE /\ Suspend([r EXCEPT !.rowIndex = rowIndex,
                                        !.currentRow = rows[rowIndex + 1]],
                              "update")
                   /\ UNCHANGED last
        /\ UNCHANGED <<cars, sales, rentals, repairs, now, soldOK,
                       existingIds, prefix, newId, query, params, clientVars, driveVars>>

\* The write one row too low, at A{rowIndex + 3} (a mutation of the code).
WriteRow_OneRowDown(rows, rowIndex, row) ==
    IF rowIndex + 2 <= Len(rows) THEN [rows EXCEPT ![rowIndex + 2] = row]
    ELSE IF rowIndex + 2 = Len(rows) + 1 THEN Append(rows, row)
    ELSE rows

\* values.update of the full row at A{rowIndex + 2}: the data row
\* rowIndex + 1, which exists because no request removes a row.
WriteRow(rows, rowIndex, row) ==
    IF rowIndex >= 0 /\ rowIndex + 1 <= Len(rows)
       THEN [rows EXCEPT ![rowIndex + 1] = row]
       ELSE rows

\* The row as it is in the store when the write arrives.
StoreRow(rows, rowIndex, currentRow) ==
    IF rowIndex >= 0 /\ rowIndex + 1 <= Len(rows) THEN rows[rowIndex + 1]
    ELSE currentRow

\* The step after the write: res.json(...), status 200.
PutDone(r) ==
    /\ Finish(r)
    /\ Respond([r EXCEPT !.writes = r.writes + 1], 200)

PutCarRead(id, updates) == PutRead("putCar", id, updates, ReadCars)

\* updatedRow of the cars handler: column I receives currentRow[8], the
\* status that the read returned.
UpdatedCarRow(r) ==
    [id |-> r.id,
     make |-> OrCell(r.updates.make, r.currentRow.make),
     purchasePrice |->
         NumberCell(r.updates.purchasePrice, r.currentRow.purchasePrice,
                    StoreRow(cars, r.rowIndex, r.currentRow).purchasePrice),
     statusCell |-> r.currentRow.currentStatus]

PutCarUpdate(r) ==
    /\ r.op = "putCar" /\ r.pc = "update"
    /\ cars' = WriteRow(cars, r.rowIndex, UpdatedCarRow(r))
    /\ PutDone(r)
    /\ UNCHANGED <<sales, rentals, repairs, now, started, soldOK,
                   existingIds, prefix, newId, query, params, clientVars, driveVars>>

PutRepairRead(id, updates) == PutRead("putRepair", id, updates, ReadRepairs)

UpdatedRepairRow(r) ==
    [id |-> r.id,
     carId |-> OrCell(r.updates.carId, r.currentRow.carId),
     cost |-> NumberCell(r.updates.cost, r.currentRow.cost,
                         StoreRow(repairs, r.rowIndex, r.currentRow).cost)]

PutRepairUpdate(r) ==
    /\ r.op = "putRepair" /\ r.pc = "update"
    /\ repairs' = WriteRow(repairs, r.rowIndex, UpdatedRepairRow(r))
    /\ PutDone(r)
    /\ UNCHANGED <<cars, sales, rentals, now, started, soldOK,
                   existingIds, prefix, newId, query, params, clientVars, driveVars>>

PutSaleRead(id, updates) == PutRead("putSale", id, updates, ReadSales)

UpdatedSaleRow(r) ==
    [id |-> r.id,
     carId |-> OrCell(r.updates.carId, r.currentRow.carId),
     salePrice |->
         NumberCell(r.updates.salePrice, r.currentRow.salePrice,
                    StoreRow(sales, r.rowIndex, r.currentRow).salePrice)]

PutSaleUpdate(r) ==
    /\ r.op = "putSale" /\ r.pc = "update"
    /\ sales' = WriteRow(sales, r.rowIndex, UpdatedSaleRow(r))
    /\ PutDone(r)
    /\ UNCHANGED <<cars, rentals, repairs, now, started, soldOK,
                   existingIds, prefix, newId, query, params, clientVars, driveVars>>

PutRentalRead(id, updates) == PutRead("putRental", id, updates, ReadRentals)

\* updatedRow of the rentals handler: column O receives currentRow[14], the
\* rental status that the read returned.
UpdatedRentalRow(r) ==
    [id |-> r.id,
     carId |-> OrCell(r.updates.carId, r.currentRow.carId),
     startDate |-> OrDate(r.updates.startDate, r.currentRow.startDate),
     returnDate |-> OrDate(r.updates.returnDate, r.currentRow.returnDate),
     statusCell |-> r.currentRow.rentalStatus]

PutRentalUpdate(r) ==
    /\ r.op = "putRental" /\ r.pc = "update"
    /\ rentals' = WriteRow(rentals, r.rowIndex, UpdatedRentalRow(r))
    /\ PutDone(r)
    /\ UNCHANGED <<cars, sales, repairs, now, started, soldOK,
                   existingIds, prefix, newId, query, params, clientVars, driveVars>>

\* ------------------------------------------------- pagination parameters
\* req.query holds, for each of page and limit, nothing or one string:
\* the empty set or a singleton.
NoQuery == [page |-> {}, limit |-> {}]

NoParams == [page |-> 0, limit |-> 0]

\* parseInt(query.x as string): parseInt(undefined) is NaN.
ParseParam(x) ==
    IF x = {} THEN [nan |-> TRUE, val |-> 0]
    ELSE ParseInt(CHOOSE s \in x : TRUE)

\* n || d for a number n.
OrDefault(p, d) == IF p.nan \/ p.val = 0 THEN d ELSE p.val

\* The largest limit a request may ask for.
LimitCap == 1000

\* validatePaginationParams without the upper clamp of the limit (a
\* mutation of the code).
validatePaginationParams_NoCap(q) ==
    [page |-> Max({1, OrDefault(ParseParam(q.page), 1)}),
     limit |-> Max({1, OrDefault(ParseParam(q.limit), 10)})]

\* page = Math.max(1, parseInt(page) || 1)
\* limit = Math.min(Math.max(1, parseInt(limit) || 10), 1000)
validatePaginationParams(q) ==
    [page |-> Max({1, OrDefault(ParseParam(q.page), 1)}),
     limit |-> Min(Max({1, OrDefault(ParseParam(q.limit), 10)}), LimitCap)]

\* ------------------------------------------------- paginated GETs
\* The header occupies row 1 of every sheet; the ranges start at row 2.
HeaderRows == 1

\* Math.ceil(a / b) for a >= 0, b >= 1.
Ceil(a, b) == (a + b - 1) \div b

\* Array.prototype.slice(from, to) for 0 <= from <= to.
Slice(s, from, to) == SubSeq(s, from + 1, Min(to, Len(s)))

\* (values?.length || 0) - 1 over the full ID column, header included.
TotalItems(rows) == (HeaderRows + Len(rows)) - 1

\* The data of a cars page with the slice left out (a mutation of the
\* code: what the other three GET handlers do).
CarsPage_NoSlice(page, limit) == ReadCars

\* allCars.slice(startIndex, endIndex) with startIndex = (page - 1) * limit.
CarsPage(page, limit) ==
    LET startIndex == (page - 1) * limit
        endIndex == startIndex + limit
    IN  Slice(ReadCars, startIndex, endIndex)

\* The three other handlers compute startRow and endRow but never use
\* them: the data is the whole sheet.
SalesPage(page, limit) == ReadSales

RentalsPage(page, limit) == ReadRentals

\* Without a carId in the query the repairs are not filtered.
RepairsPage(page, limit) == ReadRepairs

\* createPaginatedResponse(data, page, limit, totalItems)
Paginated(op, data, page, limit, totalItems) ==
    [NewRequest(op, <<>>, 0, 0, TRUE) EXCEPT
        !.page = page, !.limit = limit, !.data = data,
        !.totalItems = totalItems, !.totalPages = Ceil(totalItems, limit)]

\* A GET handler served while no other request is in flight: its two
\* reads see the same sheet.
Get(op, data, page, limit, rows) ==
    /\ inflight = EmptyBag
    /\ started < MaxStarted
    /\ started' = started + 1
    /\ Respond(Paginated(op, data, page, limit, TotalItems(rows)), 200)
    /\ UNCHANGED <<cars, sales, rentals, repairs, now, inflight, soldOK,
                   existingIds, prefix, newId,
                   query, params, clientVars, driveVars>>

GetCars(page, limit) == Get("getCars", CarsPage(page, limit), page, limit, cars)

GetSales(page, limit) == Get("getSales", SalesPage(page, limit), page, limit, sales)

GetRentals(page, limit) ==
    Get("getRentals", RentalsPage(page, limit), page, limit, rentals)

GetRepairs(page, limit) ==
    Get("getRepairs", RepairsPage(page, limit), page, limit, repairs)

\* ------------------------------------------------- failures and time
\* The catch block taking back the Sales row appended before the failed
\* status write (a mutation of the code, which has no rollback).
StoreCallFails_RollsBack(r) ==
    /\ r.op \in {"postCar", "postSale", "postRental", "postRepair",
                 "putCar", "putRepair", "putSale", "putRental"}
    /\ Finish(r)
    /\ Respond(r, 500)
    /\ IF r.op = "postSale" /\ r.pc = "update" /\ Len(sales) > 0
          THEN sales' = SubSeq(sales, 1, Len(sales) - 1)
          ELSE UNCHANGED sales
    /\ UNCHANGED <<cars, rentals, repairs, now, started, soldOK,
                   existingIds, prefix, newId,
                   query, params, clientVars, driveVars>>

\* The catch block without its response (a mutation of the code, which
\* answers 500 in every catch block).
StoreCallFails_Silent(r) ==
    /\ r.op \in {"postCar", "postSale", "postRental", "postRepair",
                 "putCar", "putRepair", "putSale", "putRental"}
    /\ Finish(r)
    /\ UNCHANGED <<cars, sales, rentals, repairs, now, last, started, soldOK,
                   existingIds, prefix, newId,
                   query, params, clientVars, driveVars>>

\* The store call a handler is waiting for rejects: the catch block
\* answers 500.
StoreCallFails(r) ==
    /\ r.op \in {"postCar", "postSale", "postRental", "postRepair",
                 "putCar", "putRepair", "putSale", "putRental"}
    /\ Finish(r)
    /\ Respond(r, 500)
    /\ UNCHANGED <<cars, sales, rentals, repairs, now, started, soldOK,
                   existingIds, prefix, newId,
                   query, params, clientVars, driveVars>>

\* The first store call of a request rejects.
FirstCallFails(op, carId) ==
    /\ started' = started + 1
    /\ Respond(NewRequest(op, carId, 1, 1, TRUE), 500)
    /\ UNCHANGED <<cars, sales, rentals, repairs, now, inflight, soldOK,
                   existingIds, prefix, newId,
                   query, params, clientVars, driveVars>>

\* A day passes in the store.
Tick ==
    /\ now <= MaxDay
    /\ now' = now + 1
    /\ UNCHANGED <<cars, sales, rentals, repairs, inflight, last, started,
                   soldOK, existingIds, prefix, newId,
                   query, params, clientVars, driveVars>>

\* ------------------------------------------------- specifications
Init ==
    /\ cars = <<>> /\ sales = <<>> /\ rentals = <<>> /\ repairs = <<>>
    /\ now = 1
    /\ inflight = EmptyBag
    /\ last = NoRequest
    /\ started = 0
    /\ soldOK = {}
    /\ existingIds = <<>> /\ prefix = <<"C">> /\ newId = <<>>
    /\ query = NoQuery /\ params = NoParams
    /\ ClientInit /\ DriveInit

Intervals == {<<s, e>> \in Days \X Days : s <= e}

\* Requests interleave at their awaits; any store call may fail.
Next ==
    \/ CanStart /\ PostCarRead
    \/ \E r \in InFlight : PostCarAppend(r)
    \/ \E c \in CarIds, ok \in BOOLEAN : CanStart /\ PostSaleRead(c, ok)
    \/ \E r \in InFlight : PostSaleReadSales(r)
    \/ \E r \in InFlight : PostSaleAppend(r)
    \/ \E r \in InFlight : PostSaleUpdate(r)
    \/ \E c \in CarIds, iv \in Intervals, ok \in BOOLEAN :
          CanStart /\ PostRentalRead(c, iv[1], iv[2], ok)
    \/ \E r \in InFlight : PostRentalReadRentals(r)
    \/ \E r \in InFlight : PostRentalAppend(r)
    \/ \E r \in InFlight : StoreCallFails(r)
    \/ \E op \in {"postCar", "postSale", "postRental"} :
          CanStart /\ FirstCallFails(op, C1)
    \/ Tick

Spec == Init /\ [][Next]_vars

\* Sequential execution: each request completes before the next starts
\* and no store call fails.
SeqNext ==
    \/ SeqCanStart /\ PostCarRead
    \/ \E r \in InFlight : PostCarAppend(r)
    \/ \E c \in CarIds, ok \in BOOLEAN : SeqCanStart /\ PostSaleRead(c, ok)
    \/ \E r \in InFlight : PostSaleReadSales(r)
    \/ \E r \in InFlight : PostSaleAppend(r)
    \/ \E r \in InFlight : PostSaleUpdate(r)
    \/ \E c \in CarIds, iv \in Intervals, ok \in BOOLEAN :
          SeqCanStart /\ PostRentalRead(c, iv[1], iv[2], ok)
    \/ \E r \in InFlight : PostRentalReadRentals(r)
    \/ \E r \in InFlight : PostRentalAppend(r)
    \/ \E p \in 1..MaxPage, l \in 1..MaxLimit : GetCars(p, l)
    \/ Tick

SeqSpec == Init /\ [][SeqNext]_vars

\* ---- generateId over an ID column of arbitrary strings
IdChars == {"C", "0", "1", "9"}

RECURSIVE StringsOfLen(_)
StringsOfLen(n) ==
    IF n = 0 THEN {<<>>}
    ELSE {Append(s, c) : s \in StringsOfLen(n - 1), c \in IdChars}

IdStrings == UNION {StringsOfLen(n) : n \in 0..MaxIdLen}

\* A row with this ID is in the sheet (entered by hand, or created earlier).
EnterId(id) ==
    /\ Len(existingIds) < MaxIds
    /\ existingIds' = Append(existingIds, id)
    /\ newId' = <<>>
    /\ UNCHANGED <<cars, sales, rentals, repairs, now, inflight, last,
                   started, soldOK, prefix,
                   query, params, clientVars, driveVars>>

\* const newId = generateId(prefix, existingIds)
Generate ==
    /\ newId = <<>>
    /\ newId' = generateId(prefix, existingIds)
    /\ UNCHANGED <<cars, sales, rentals, repairs, now, inflight, last,
                   started, soldOK, existingIds, prefix,
                   query, params, clientVars, driveVars>>

GenNext ==
    \/ \E id \in IdStrings : EnterId(id)
    \/ Generate

GenSpec == Init /\ [][GenNext]_vars

\* ---- the paginated GETs over sheets of 0..MaxRows data rows
RowId(pfx, i) == pfx \o NumToStr(i)

\* Sheets as sequential creations leave them: nc cars of which the first
\* ns are sold, nr rentals and np repairs.
PageInit ==
    \E nc \in 0..MaxRows, ns \in 0..MaxRows, nr \in 0..MaxRows, np \in 0..MaxRows :
        /\ ns <= nc /\ nr <= nc
        /\ cars = [i \in 1..nc |->
                     [id |-> RowId(<<"C">>, i), make |-> BodyText,
                      purchasePrice |-> BodyNumber,
                      statusCell |-> IF i <= ns THEN "Sold" ELSE ""]]
        /\ sales = [i \in 1..ns |->
                      [id |-> RowId(<<"S">>, i), carId |-> RowId(<<"C">>, i),
                       salePrice |-> BodyNumber]]
        /\ rentals = [i \in 1..nr |->
                        [id |-> RowId(<<"R", "N">>, i),
                         carId |-> RowId(<<"C">>, i),
                         startDate |-> 1, returnDate |-> 1,
                         statusCell |-> ""]]
        /\ repairs = [i \in 1..np |->
                        [id |-> RowId(<<"R">>, i), carId |-> RowId(<<"C">>, 1),
                         cost |-> BodyNumber]]
        /\ now = 1
        /\ inflight = EmptyBag
        /\ last = NoRequest
        /\ started = 0
        /\ soldOK = {RowId(<<"C">>, i) : i \in 1..ns}
        /\ existingIds = <<>> /\ prefix = <<"C">> /\ newId = <<>>
        /\ query = NoQuery /\ params = NoParams
        /\ ClientInit /\ DriveInit

PageNext ==
    \/ \E p \in 1..MaxPage, l \in 1..MaxLimit : GetCars(p, l)
    \/ \E p \in 1..MaxPage, l \in 1..MaxLimit : GetSales(p, l)
    \/ \E p \in 1..MaxPage, l \in 1..MaxLimit : GetRentals(p, l)
    \/ \E p \in 1..MaxPage, l \in 1..MaxLimit : GetRepairs(p, l)

PageSpec == PageInit /\ [][PageNext]_vars

\* ---- creates and updates, interleaved, over a store that holds rows
\* An ID that no row carries.
UnknownId(pfx) == pfx \o <<"9">>

With(field, v) == [NoUpdates EXCEPT ![field] = {v}]

\* The store as sequential creations leave it: two cars, of which the
\* first is sold or not, and possibly a rental of the second car and a
\* repair of the first.
UpdInit ==
    \E ns \in 0..1, nr \in 0..1, np \in 0..1 :
        /\ cars = [i \in 1..2 |->
                     [id |-> RowId(<<"C">>, i), make |-> BodyText,
                      purchasePrice |-> BodyNumber,
                      statusCell |-> IF i <= ns THEN "Sold" ELSE ""]]
        /\ sales = [i \in 1..ns |->
                      [id |-> RowId(<<"S">>, i), carId |-> RowId(<<"C">>, i),
                       salePrice |-> BodyNumber]]
        /\ rentals = [i \in 1..nr |->
                        [id |-> RowId(<<"R", "N">>, i), carId |-> C2,
                         startDate |-> 1, returnDate |-> 1,
                         statusCell |-> ""]]
        /\ repairs = [i \in 1..np |->
                        [id |-> RowId(<<"R">>, i), carId |-> C1,
                         cost |-> BodyNumber]]
        /\ now = 1
        /\ inflight = EmptyBag
        /\ last = NoRequest
        /\ started = 0
        /\ soldOK = {RowId(<<"C">>, i) : i \in 1..ns}
        /\ existingIds = <<>> /\ prefix = <<"C">> /\ newId = <<>>
        /\ query = NoQuery /\ params = NoParams
        /\ ClientInit /\ DriveInit

UpdCanStart ==
    started < MaxUpdStarted /\ BagCardinality(inflight) < MaxInFlight

\* The bodies of the update requests.
CarUpdates == {NoUpdates, With("make", JsonString(<<"b">>))}

SaleUpdates == {NoUpdates, With("carId", JsonString(C2))}

RentalUpdates == {NoUpdates, With("returnDate", MaxDay)}

RepairUpdates == {NoUpdates, With("carId", JsonString(C2))}

UpdNext ==
    \/ \E id \in {C1, UnknownId(<<"C">>)}, u \in CarUpdates :
          UpdCanStart /\ PutCarRead(id, u)
    \/ \E r \in InFlight : PutCarUpdate(r)
    \/ \E id \in {RowId(<<"S">>, 1), UnknownId(<<"S">>)}, u \in SaleUpdates :
          UpdCanStart /\ PutSaleRead(id, u)
    \/ \E r \in InFlight : PutSaleUpdate(r)
    \/ \E id \in {RowId(<<"R", "N">>, 1), UnknownId(<<"R", "N">>)},
          u \in RentalUpdates :
          UpdCanStart /\ PutRentalRead(id, u)
    \/ \E r \in InFlight : PutRentalUpdate(r)
    \/ \E id \in {RowId(<<"R">>, 1), UnknownId(<<"R">>)}, u \in RepairUpdates :
          UpdCanStart /\ PutRepairRead(id, u)
    \/ \E r \in InFlight : PutRepairUpdate(r)
    \/ UpdCanStart /\ PostCarRead
    \/ \E r \in InFlight : PostCarAppend(r)
    \/ UpdCanStart /\ PostRepairRead(C1)
    \/ \E r \in InFlight : PostRepairAppend(r)
    \/ UpdCanStart /\ PostSaleRead(C1, TRUE)
    \/ \E r \in InFlight : PostSaleReadSales(r)
    \/ \E r \in InFlight : PostSaleAppend(r)
    \/ \E r \in InFlight : PostSaleUpdate(r)
    \/ \E r \in InFlight : StoreCallFails(r)
    \/ \E op \in {"putCar", "putRepair", "putSale", "putRental"} :
          UpdCanStart /\ FirstCallFails(op, <<>>)

UpdSpec == UpdInit /\ [][UpdNext]_vars

\* ---- every entity endpoint, with the store calls settling
\* A pending store call of an in-flight request settles: it resolves and
\* the handler runs on to its next await or to its response, or it
\* rejects and the catch block answers.
Settles ==
    \E r \in InFlight :
        \/ PostCarAppend(r) \/ PostRepairAppend(r)
        \/ PostSaleReadSales(r) \/ PostSaleAppend(r) \/ PostSaleUpdate(r)
        \/ PostRentalReadRentals(r) \/ PostRentalAppend(r)
        \/ PutCarUpdate(r) \/ PutRepairUpdate(r)
        \/ PutSaleUpdate(r) \/ PutRentalUpdate(r)
        \/ StoreCallFails(r)

GetOps == {"getCars", "getRepairs", "getSales", "getRentals"}

\* GET, POST and PUT on cars, repairs, sales and rentals; any store call
\* may reject.
LiveNext ==
    \/ \E id \in {C1, UnknownId(<<"C">>)} : UpdCanStart /\ PutCarRead(id, NoUpdates)
    \/ \E r \in InFlight : PutCarUpdate(r)
    \/ UpdCanStart /\ PutSaleRead(RowId(<<"S">>, 1), NoUpdates)
    \/ \E r \in InFlight : PutSaleUpdate(r)
    \/ UpdCanStart /\ PutRentalRead(RowId(<<"R", "N">>, 1), NoUpdates)
    \/ \E r \in InFlight : PutRentalUpdate(r)
    \/ UpdCanStart /\ PutRepairRead(RowId(<<"R">>, 1), NoUpdates)
    \/ \E r \in InFlight : PutRepairUpdate(r)
    \/ UpdCanStart /\ PostCarRead
    \/ \E r \in InFlight : PostCarAppend(r)
    \/ UpdCanStart /\ PostRepairRead(C1)
    \/ \E r \in InFlight : PostRepairAppend(r)
    \/ UpdCanStart /\ PostSaleRead(C1, TRUE)
    \/ \E r \in InFlight : PostSaleReadSales(r)
    \/ \E r \in InFlight : PostSaleAppend(r)
    \/ \E r \in InFlight : PostSaleUpdate(r)
    \/ \E ok \in BOOLEAN : UpdCanStart /\ PostRentalRead(C1, 1, 1, ok)
    \/ \E r \in InFlight : PostRentalReadRentals(r)
    \/ \E r \in InFlight : PostRentalAppend(r)
    \/ UpdCanStart /\ GetCars(1, MaxLimit)
    \/ UpdCanStart /\ GetRepairs(1, MaxLimit)
    \/ UpdCanStart /\ GetSales(1, MaxLimit)
    \/ UpdCanStart /\ GetRentals(1, MaxLimit)
    \/ \E r \in InFlight : StoreCallFails(r)
    \/ \E op \in GetOps \cup {"postCar", "putCar"} :
          UpdCanStart /\ FirstCallFails(op, C1)

\* Two unsold cars, the second rented, the first repaired.
LiveInit == UpdInit /\ Len(sales) = 0 /\ Len(rentals) = 1 /\ Len(repairs) = 1

\* The event loop runs the continuation of every store call that has
\* settled, and every store call settles.
LiveSpec == LiveInit /\ [][LiveNext]_vars /\ WF_vars(Settles)

\* ---- updates one at a time, over all kinds of body values and cells
\* What a text cell and a number cell may hold: nothing, a text, a number.
TextCells == {<<>>, <<"a">>}

NumberCells == {<<>>, <<"0">>, <<"5">>, <<"x">>}

\* What a body may carry for a text field and for a number field.
TextValues ==
    {{}, {JsonString(<<>>)}, {JsonString(<<"b">>)}, {JsonNumber(<<"0">>)},
     {JsonNumber(<<"7">>)}}

NumberValues ==
    {{}, {JsonNumber(<<"0">>)}, {JsonNumber(<<"7">>)}, {JsonString(<<>>)},
     {JsonString(<<"7">>)}, {JsonString(<<"x">>)}}

CarIdValues == {{}, {JsonString(<<>>)}, {JsonString(C2)}}

CarMerges ==
    {[NoUpdates EXCEPT !.make = m, !.purchasePrice = p] :
        m \in TextValues, p \in NumberValues}

SaleMerges ==
    {[NoUpdates EXCEPT !.carId = c, !.salePrice = p] :
        c \in CarIdValues, p \in NumberValues}

RepairMerges ==
    {[NoUpdates EXCEPT !.carId = c, !.cost = p] :
        c \in CarIdValues, p \in NumberValues}

RentalMerges ==
    {[NoUpdates EXCEPT !.carId = c, !.startDate = d, !.returnDate = e] :
        c \in CarIdValues, d \in {{}, {1}}, e \in {{}, {MaxDay}}}

\* Two cars, the first sold and repaired, the second rented; the text and
\* number cells hold any of their possible contents.
MergeInit ==
    \E t \in TextCells, n \in NumberCells :
        /\ cars = [i \in 1..2 |->
                     [id |-> RowId(<<"C">>, i), make |-> t,
                      purchasePrice |-> n,
                      statusCell |-> IF i = 1 THEN "Sold" ELSE ""]]
        /\ sales = <<[id |-> RowId(<<"S">>, 1), carId |-> C1, salePrice |-> n]>>
        /\ rentals = <<[id |-> RowId(<<"R", "N">>, 1), carId |-> C2,
                        startDate |-> 1, returnDate |-> 1, statusCell |-> ""]>>
        /\ repairs = <<[id |-> RowId(<<"R">>, 1), carId |-> C1, cost |-> n]>>
        /\ now = 1
        /\ inflight = EmptyBag
        /\ last = NoRequest
        /\ started = 0
        /\ soldOK = {C1}
        /\ existingIds = <<>> /\ prefix = <<"C">> /\ newId = <<>>
        /\ query = NoQuery /\ params = NoParams
        /\ ClientInit /\ DriveInit

MergeCanStart == started < MaxMerges /\ inflight = EmptyBag

MergeNext ==
    \/ \E id \in {C1, C2}, u \in CarMerges : MergeCanStart /\ PutCarRead(id, u)
    \/ \E r \in InFlight : PutCarUpdate(r)
    \/ \E u \in SaleMerges : MergeCanStart /\ PutSaleRead(RowId(<<"S">>, 1), u)
    \/ \E r \in InFlight : PutSaleUpdate(r)
    \/ \E u \in RentalMerges :
          MergeCanStart /\ PutRentalRead(RowId(<<"R", "N">>, 1), u)
    \/ \E r \in InFlight : PutRentalUpdate(r)
    \/ \E u \in RepairMerges :
          MergeCanStart /\ PutRepairRead(RowId(<<"R">>, 1), u)
    \/ \E r \in InFlight : PutRepairUpdate(r)

MergeSpec == MergeInit /\ [][MergeNext]_vars

\* ---- validatePaginationParams over query strings
QueryChars == {"-", "0", "1", "9", "a"}

RECURSIVE QueryStringsOfLen(_)
QueryStringsOfLen(n) ==
    IF n = 0 THEN {<<>>}
    ELSE {Append(s, c) : s \in QueryStringsOfLen(n - 1), c \in QueryChars}

QueryStrings == UNION {QueryStringsOfLen(n) : n \in 0..MaxQueryLen}

\* A parameter is missing or is any string; the other one is missing or "2".
QueryValues == {{}} \cup {{s} : s \in QueryStrings}

PlainQueryValues == {{}, {<<"2">>}}

ParamInit ==
    /\ cars = <<>> /\ sales = <<>> /\ rentals = <<>> /\ repairs = <<>>
    /\ now = 1
    /\ inflight = EmptyBag
    /\ last = NoRequest
    /\ started = 0
    /\ soldOK = {}
    /\ existingIds = <<>> /\ prefix = <<"C">> /\ newId = <<>>
    /\ \E a \in QueryValues, b \in PlainQueryValues :
          query \in {[page |-> a, limit |-> b], [page |-> b, limit |-> a]}
    /\ params = NoParams
    /\ ClientInit /\ DriveInit

\* const { page, limit } = validatePaginationParams(req.query)
Validate ==
    /\ params = NoParams
    /\ params' = validatePaginationParams(query)
    /\ UNCHANGED <<cars, sales, rentals, repairs, now, inflight, last, started,
                   soldOK, existingIds, prefix, newId, query,
                   clientVars, driveVars>>

ParamNext == Validate

ParamSpec == ParamInit /\ [][ParamNext]_vars

\* ------------------------------------------------- properties
\* The step in which a request of this kind, with every required field
\* present, is answered by its first read (the read itself succeeded).
AnsweredAtStart(op) ==
    /\ started' = started + 1
    /\ inflight' = inflight
    /\ last'.op = op /\ last'.complete /\ last'.code # 500

\* The requests of this kind that the step starts and suspends.
SuspendedAtStart(op) ==
    {r \in BagToSet(inflight') :
        /\ started' = started + 1
        /\ r.op = op
        /\ CopiesIn(r, inflight') > CopiesIn(r, inflight)}

HasRow(rows, id) == \E i \in 1..Len(rows) : rows[i].id = id

\* The status a read returns for the first Cars row carrying this ID.
FirstStatusIs(carId, st) ==
    \E i \in 1..Len(cars) :
        /\ cars[i].id = carId
        /\ \A j \in 1..(i - 1) : cars[j].id # carId
        /\ CurrentStatus(cars[i]) = st

Requests == InFlight \cup {last}

\* C1: POST /api/sales for a car whose currentStatus is 'Sold' answers 400
\* and writes nothing: neither the Sales sheet nor the Cars sheet changes,
\* and the handler does not go on to its writes.
C1_SoldCarSaleRejected ==
    [][/\ (AnsweredAtStart("postSale") /\ FirstStatusIs(last'.carId, "Sold"))
            => (last'.code = 400 /\ sales' = sales /\ cars' = cars)
       /\ \A r \in SuspendedAtStart("postSale") :
            ~FirstStatusIs(r.carId, "Sold")]_vars

C1_Witness ==
    /\ last.op = "postSale" /\ last.code = 400 /\ last.complete
    /\ last.status = "Sold" /\ FirstStatusIs(last.carId, "Sold")

\* C2: POST /api/sales with every required field and a carId that matches
\* no Cars row answers 404 and writes nothing to Sales or Cars.
C2_UnknownCarSaleNotFound ==
    [][/\ (AnsweredAtStart("postSale") /\ ~HasRow(cars, last'.carId))
            => (last'.code = 404 /\ sales' = sales /\ cars' = cars)
       /\ \A r \in SuspendedAtStart("postSale") : HasRow(cars, r.carId)]_vars

C2_Witness ==
    /\ last.op = "postSale" /\ last.code = 404 /\ last.complete
    /\ ~HasRow(cars, last.carId)

\* C3: in a sequential execution without store failures, once POST
\* /api/sales has answered 201 for a car, every read of the Cars sheet
\* returns 'Sold' for it, every later GET /api/cars reports it as 'Sold',
\* and every later POST /api/sales for it is rejected without a write.
C3_SoldStaysSold ==
    /\ \A i \in 1..Len(cars) :
          cars[i].id \in soldOK => ReadCars[i].currentStatus = "Sold"
    /\ last.op = "getCars" =>
          \A k \in 1..Len(last.data) :
              last.data[k].id \in last.after
                 => last.data[k].currentStatus = "Sold"
    /\ \A r \in Requests :
          (r.op = "postSale" /\ r.complete /\ r.carId \in r.after)
             => (r.code = 400 /\ r.writes = 0)

C3_Witness ==
    /\ last.op = "postSale" /\ last.code = 400 /\ last.carId \in last.after
    /\ \E i \in 1..Len(sales) : sales[i].carId = last.carId

\* C4 as stated: a Sale row is appended only by a request that read
\* 'Available' for its car.
C4_SaleOnlyOfAvailableCar ==
    \A r \in Requests :
        (r.op = "postSale" /\ r.writes > 0) => r.status = "Available"

\* C4 amended: a Sale row is appended only by a request that found its car
\* and read a status other than 'Sold' for it.
C4_SaleOnlyOfUnsoldCar ==
    \A r \in Requests :
        (r.op = "postSale" /\ r.writes > 0)
           => (r.status \in {"Available", "On Rent"} /\ r.carIndex >= 0)

\* A car read as 'On Rent' has been sold.
C4_Witness ==
    /\ last.op = "postSale" /\ last.code = 201 /\ last.status = "On Rent"
    /\ \E i \in 1..Len(sales) : sales[i].carId = last.carId

\* C5: POST /api/rentals appends a row only when the first Cars row with
\* the carId reads 'Available'; with no such row it answers 404, with
\* another status 400, and in both cases the Rentals sheet is unchanged.
C5_RentalOnlyOfAvailableCar ==
    [][/\ (AnsweredAtStart("postRental") /\ ~HasRow(cars, last'.carId))
            => (last'.code = 404 /\ rentals' = rentals)
       /\ (AnsweredAtStart("postRental") /\ HasRow(cars, last'.carId)
              /\ ~FirstStatusIs(last'.carId, "Available"))
            => (last'.code = 400 /\ rentals' = rentals)
       /\ \A r \in SuspendedAtStart("postRental") :
            FirstStatusIs(r.carId, "Available")
       /\ rentals' # rentals =>
            \E r \in InFlight :
                /\ r.op = "postRental" /\ r.status = "Available"
                /\ inflight' = inflight (-) SetToBag({r})
                /\ rentals'[Len(rentals')].carId = r.carId]_vars

C5_Witness ==
    /\ last.op = "postRental" /\ last.code = 201 /\ last.status = "Available"
    /\ \E i \in 1..Len(rentals) : rentals[i].carId = last.carId

\* C6: a rental request that overlaps an Active rental of its car is
\* rejected without a write, and no two Active rentals of one car overlap.
C6_NoOverlappingActiveRentals ==
    /\ \A r \in Requests :
          (r.op = "postRental" /\ r.overlapped) => (r.code = 400 /\ r.writes = 0)
    /\ \A i, j \in 1..Len(rentals) :
          (/\ i < j
           /\ rentals[i].carId = rentals[j].carId
           /\ RentalStatus(rentals[i]) = "Active"
           /\ RentalStatus(rentals[j]) = "Active")
             => ~Overlaps(rentals[i].startDate, rentals[i].returnDate, rentals[j])

\* C7: a rental request for an unsold car that has an Active rental is
\* accepted when its interval overlaps none of the car's Active rentals.
C7_DisjointRentalAccepted ==
    (/\ last.op = "postRental" /\ last.complete /\ last.code \notin {0, 500}
     /\ last.status \in {"Available", "On Rent"}
     /\ last.hadActive /\ ~last.overlapped)
        => last.code = 201

\* ---- generateId
StartsWith(s, pfx) == Len(s) >= Len(pfx) /\ SubSeq(s, 1, Len(pfx)) = pfx

\* The ID with a leading prefix taken off.
Remainder(id, pfx) ==
    IF StartsWith(id, pfx) THEN SubSeq(id, Len(pfx) + 1, Len(id)) ELSE id

IsNumeral(s) == Len(s) >= 1 /\ \A i \in 1..Len(s) : IsDigit(s[i])

RECURSIVE Pow10(_)
Pow10(n) == IF n = 0 THEN 1 ELSE 10 * Pow10(n - 1)

\* The number a string of decimal digits denotes.
RECURSIVE NumeralValue(_)
NumeralValue(s) ==
    IF s = <<>> THEN 0
    ELSE DigitVal(Head(s)) * Pow10(Len(s) - 1) + NumeralValue(Tail(s))

\* An ID whose remainder is either a number or holds no digit at all.
PlainId(id, pfx) ==
    LET rem == Remainder(id, pfx)
    IN  IsNumeral(rem) \/ \A i \in 1..Len(rem) : ~IsDigit(rem[i])

\* The integer of an ID: its numeric remainder, 0 for a non-numeric one.
IdNumber(id, pfx) ==
    LET rem == Remainder(id, pfx)
    IN  IF IsNumeral(rem) THEN NumeralValue(rem) ELSE 0

PageRows(all, p, l) ==
    LET first == (p - 1) * l + 1
        lastRow == Min(p * l, Len(all))
    IN  [k \in 1..(lastRow - first + 1) |-> all[first + k - 1]]

RECURSIVE CarsPagesUpTo(_, _)
CarsPagesUpTo(n, l) ==
    IF n = 0 THEN <<>> ELSE CarsPagesUpTo(n - 1, l) \o CarsPage(n, l)

\* C9: a page of GET /api/cars holds exactly the rows of its positions,
\* and the pages 1..ceil(N/L) concatenated are the N rows in sheet order.
C9_CarsPagesPartition ==
    /\ last.op = "getCars" =>
          last.data = PageRows(ReadCars, last.page, last.limit)
    /\ \A l \in 1..MaxLimit :
          CarsPagesUpTo(Ceil(Len(cars), l), l) = ReadCars

\* The short last page of a sheet of three rows read by pages of two.
C9_Witness ==
    /\ last.op = "getCars" /\ last.page = 2 /\ last.limit = 2
    /\ Len(cars) = 3 /\ Len(last.data) = 1

SheetOf(op) ==
    IF op = "getSales" THEN sales
    ELSE IF op = "getRentals" THEN rentals
    ELSE repairs

\* C10: a page of GET /api/repairs, /api/sales or /api/rentals holds at
\* most limit records, those of positions (page-1)*limit+1 .. min(page*limit, N).
C10_OtherPagesPartition ==
    last.op \in {"getSales", "getRentals", "getRepairs"} =>
        /\ Len(last.data) <= last.limit
        /\ IdColumn(last.data) =
              PageRows(IdColumn(SheetOf(last.op)), last.page, last.limit)

\* ---- pagination totals and parameters
AllRowsOf(op) == IF op = "getCars" THEN cars ELSE SheetOf(op)

\* C11: every paginated GET reports totalItems = the number of data rows
\* (never negative) and totalPages = ceil(totalItems / limit), and a page
\* beyond the last one has empty data.
C11_TotalsAndEmptyBeyondLast ==
    last.op \in {"getCars", "getSales", "getRentals", "getRepairs"} =>
        /\ last.totalItems = Len(AllRowsOf(last.op))
        /\ last.totalItems >= 0
        /\ last.totalPages * last.limit >= last.totalItems
        /\ (last.totalPages - 1) * last.limit < last.totalItems
              \/ (last.totalPages = 0 /\ last.totalItems = 0)
        /\ last.page > last.totalPages => last.data = <<>>

\* The string without a leading minus sign.
Unsigned(s) == IF s # <<>> /\ Head(s) = "-" THEN Tail(s) ELSE s

\* The whole string is a decimal integer.
WholeNumber(s) == IsNumeral(Unsigned(s))

NumberOf(s) ==
    IF s # <<>> /\ Head(s) = "-" THEN 0 - NumeralValue(Tail(s))
    ELSE NumeralValue(s)

\* The string does not begin with a number.
NonNumeric(s) == Unsigned(s) = <<>> \/ ~IsDigit(Head(Unsigned(s)))

\* The parameter is missing or does not begin with a number.
NoNumber(x) == x = {} \/ \A s \in x : NonNumeric(s)

PutOps == {"putCar", "putRepair", "putSale", "putRental"}

\* The IDs of the sheet that a request of this kind reads.
EntityIds(op) ==
    IF op = "putCar" THEN IdColumn(cars)
    ELSE IF op = "putRepair" THEN IdColumn(repairs)
    ELSE IF op = "putSale" THEN IdColumn(sales)
    ELSE IdColumn(rentals)

\* C13: a PUT whose :id is in no row of the entity's sheet answers 404 and
\* issues no write: the sheets are unchanged and the handler is not
\* suspended towards its write.
C13_UnknownIdUpdateNotFound ==
    [][\A op \in PutOps :
          /\ (AnsweredAtStart(op) /\ last'.id \notin SeqElems(EntityIds(op)))
                => /\ last'.code = 404 /\ last'.writes = 0
                   /\ UNCHANGED <<cars, sales, rentals, repairs>>
          /\ \A r \in SuspendedAtStart(op) : r.id \in SeqElems(EntityIds(op))]_vars

\* An update of a sale has been answered 404 while the Sales sheet holds
\* a row with another ID.
C13_Witness ==
    /\ last.op = "putSale" /\ last.code = 404 /\ last.writes = 0
    /\ sales # <<>> /\ last.id \notin SeqElems(IdColumn(sales))

\* The text of a supplied value.
Supplied(x) == (CHOOSE v \in x : TRUE).s

\* A text or number cell after the update: the supplied value when the
\* body has the field, the value read from the current row otherwise.
Merged(x, cur, cell) == IF x = {} THEN cell = cur ELSE cell = Supplied(x)

MergedDate(x, cur, cell) == IF x = {} THEN cell = cur ELSE cell \in x

\* C14: after a successful PUT the row holds, for every non-derived
\* field, the supplied value when the body has the field and the value
\* read from the current row when it has not.
C14_MergedRowWritten ==
    (last.op \in PutOps /\ last.code = 200) =>
        LET u == last.updates
            cur == last.currentRow
            k == last.rowIndex + 1
        IN  /\ last.op = "putCar" =>
                  /\ Merged(u.make, cur.make, cars[k].make)
                  /\ Merged(u.purchasePrice, cur.purchasePrice,
                            cars[k].purchasePrice)
            /\ last.op = "putRepair" =>
                  /\ Merged(u.carId, cur.carId, repairs[k].carId)
                  /\ Merged(u.cost, cur.cost, repairs[k].cost)
            /\ last.op = "putSale" =>
                  /\ Merged(u.carId, cur.carId, sales[k].carId)
                  /\ Merged(u.salePrice, cur.salePrice, sales[k].salePrice)
            /\ last.op = "putRental" =>
                  /\ Merged(u.carId, cur.carId, rentals[k].carId)
                  /\ MergedDate(u.startDate, cur.startDate, rentals[k].startDate)
                  /\ MergedDate(u.returnDate, cur.returnDate,
                                rentals[k].returnDate)

\* ---- the status cell
\* C15: no request writes into a car's currentStatus cell: column I holds
\* only what the store's formula produces.
C15_StatusCellNeverWritten ==
    \A i \in 1..Len(cars) : cars[i].statusCell = ""

\* C16: whenever no request is in flight, a car reads 'Sold' exactly when
\* a Sales row references its ID.
C16_SoldIffSaleRow ==
    inflight = EmptyBag =>
        \A i \in 1..Len(cars) :
            CurrentStatus(cars[i]) = "Sold"
               <=> \E k \in 1..Len(sales) : sales[k].carId = cars[i].id

\* C17: once a car's currentStatus cell holds 'Sold', no step of any
\* request changes it to another value.
C17_SoldCellStays ==
    [][\A i \in 1..Len(cars) :
          cars[i].statusCell = "Sold"
             => (i <= Len(cars') /\ cars'[i].statusCell = "Sold")]_vars

\* ---- concurrent creates
CreateOps == {"postCar", "postRepair", "postSale", "postRental"}

\* When the ID column grows, the new last row carries the ID that a
\* request of this kind, suspended at its append, had computed.
AppendedWithItsId(op, ids, ids2) ==
    Len(ids2) > Len(ids) =>
        \E r \in InFlight :
            /\ r.op = op /\ r.pc = "append"
            /\ CopiesIn(r, inflight') < CopiesIn(r, inflight)
            /\ ids2[Len(ids2)] = r.newId

\* C18: two create requests of one entity type that read the same ID
\* column hold the same new ID, and each appends its row with the ID it
\* computed at its read (so that both rows carry that ID).
C18_SameSnapshotSameId ==
    [][/\ \A r1, r2 \in InFlight :
             (/\ r1.op = r2.op /\ r1.op \in CreateOps
              /\ r1.pc = "append" /\ r2.pc = "append"
              /\ r1.existingIds = r2.existingIds)
                => r1.newId = r2.newId
       /\ AppendedWithItsId("postCar", IdColumn(cars), IdColumn(cars'))
       /\ AppendedWithItsId("postRepair", IdColumn(repairs), IdColumn(repairs'))
       /\ AppendedWithItsId("postSale", IdColumn(sales), IdColumn(sales'))
       /\ AppendedWithItsId("postRental", IdColumn(rentals),
                            IdColumn(rentals'))]_vars

\* Two rows of the Cars sheet carry the same ID after two concurrent
\* creates that read the same ID column.
C18_Witness ==
    /\ last.op = "postCar" /\ last.code = 201
    /\ last.newId \notin SeqElems(last.existingIds)
    /\ \E i, j \in 1..Len(cars) :
          i < j /\ cars[i].id = last.newId /\ cars[j].id = last.newId

\* C19: no car is referenced by two Sales rows: a Sale row is never
\* appended for a car that is already sold.
C19_NoCarSoldTwice ==
    \A i, j \in 1..Len(sales) : i < j => sales[i].carId # sales[j].carId

\* ---- rows keep their place
\* A sheet after a step: unchanged, or with one row appended after the
\* last one, or with one row overwritten in place under the same ID.
KeepsRows(rows, rows2) ==
    \/ rows2 = rows
    \/ Len(rows2) = Len(rows) + 1 /\ SubSeq(rows2, 1, Len(rows)) = rows
    \/ /\ Len(rows2) = Len(rows)
       /\ \E i \in 1..Len(rows) :
             /\ rows2[i].id = rows[i].id
             /\ \A j \in 1..Len(rows) : j # i => rows2[j] = rows[j]

\* C20: no request removes or moves a row: a create appends after the
\* last row, an update overwrites in place, and no ID cell changes.
C20_RowsKeepPlaceAndId ==
    [][/\ KeepsRows(cars, cars')
       /\ KeepsRows(sales, sales')
       /\ KeepsRows(rentals, rentals')
       /\ KeepsRows(repairs, repairs')]_vars

\* An update has overwritten the first car while a create has appended a
\* third one.
C20_Witness ==
    /\ last.op = "putCar" /\ last.code = 200
    /\ Len(cars) = 3 /\ cars[1].id = C1 /\ cars[2].id = C2
    /\ cars[1].make = <<"b">>

\* ---- updates under interleaving
\* The step in which this update request issues its write and answers 200.
PutCompletes(r) ==
    /\ r.op \in PutOps /\ r.pc = "update"
    /\ CopiesIn(r, inflight') < CopiesIn(r, inflight)
    /\ last'.op = r.op /\ last'.code = 200
    /\ last'.id = r.id /\ last'.updates = r.updates
    /\ last'.rowIndex = r.rowIndex

\* The sheet after the step differs from the sheet before it at most in
\* the first row that carries this ID, which still carries it.
HitsItsRow(rows, rows2, id) ==
    /\ Len(rows2) = Len(rows)
    /\ \E k \in 1..Len(rows) :
          /\ rows[k].id = id /\ rows2[k].id = id
          /\ \A i \in 1..(k - 1) : rows[i].id # id
          /\ \A j \in 1..Len(rows) : j # k => rows2[j] = rows[j]

\* C21: under every interleaving of creates and updates, the write of a
\* successful PUT lands on the row whose ID cell equals :id when the write
\* arrives, and every other row of the sheet is left as it was.
C21_UpdateHitsItsRow ==
    [][\A r \in InFlight :
          PutCompletes(r) =>
             /\ r.op = "putCar" => HitsItsRow(cars, cars', r.id)
             /\ r.op = "putRepair" => HitsItsRow(repairs, repairs', r.id)
             /\ r.op = "putSale" => HitsItsRow(sales, sales', r.id)
             /\ r.op = "putRental" => HitsItsRow(rentals, rentals', r.id)]_vars

\* An update of the first repair has been written after a concurrent
\* create appended a second repair behind it.
C21_Witness ==
    /\ last.op = "putRepair" /\ last.code = 200
    /\ last.updates.carId # {}
    /\ Len(repairs) = 2 /\ Len(last.existingIds) = 0
    /\ repairs[1].id = last.id /\ repairs[1].carId = C2
    /\ repairs[2].carId = C1

\* C22: the write of a successful PUT leaves the derived columns of its
\* row as they were in the store just before the write: the status a
\* read returns for the car, or for the rental, is the same before and
\* after the step.
C22_DerivedColumnsKept ==
    [][\A r \in InFlight :
          PutCompletes(r) =>
             LET k == r.rowIndex + 1
             IN  /\ r.op = "putCar" =>
                       CurrentStatus(cars[k])' = CurrentStatus(cars[k])
                 /\ r.op = "putRental" =>
                       RentalStatusRead(rentals[k])'
                          = RentalStatusRead(rentals[k])]_vars

\* ---- checks before writes
ValidatedOps == {"postSale", "postRental"}

PreconditionFailed(r) ==
    \/ r.status = "none"
    \/ r.op = "postSale" /\ r.status # "" /\ SaleBlocked(r.status)
    \/ r.op = "postRental" /\ r.status # "" /\ RentalBlocked(r.status)

\* C23: POST /api/sales and POST /api/rentals check the required fields
\* and the car precondition before any write.  A request with a required
\* field missing is answered 400 without a store read or write; a request
\* whose car is not found or has a blocking status is answered 404 or 400
\* without a write; and the step that gives either answer leaves every
\* sheet as it was.
C23_ChecksBeforeWrites ==
    /\ [](\A r \in Requests :
            r.op \in ValidatedOps =>
               /\ ~r.complete =>
                     /\ r.pc = "done" /\ r.code = 400
                     /\ r.status = "" /\ r.carIndex = 0 - 1
                     /\ r.existingIds = <<>> /\ r.newId = <<>>
                     /\ r.writes = 0
               /\ r.complete /\ PreconditionFailed(r) =>
                     /\ r.pc = "done" /\ r.code \in {400, 404}
                     /\ r.code = 404 <=> r.status = "none"
                     /\ r.existingIds = <<>> /\ r.writes = 0)
    /\ [][(/\ started' = started + 1
            /\ last'.op \in ValidatedOps
            /\ last'.code \in {400, 404}
            /\ inflight' = inflight)
           => UNCHANGED <<cars, sales, rentals, repairs>>]_vars

\* A rental request without a required field for a car that reads
\* Available has been answered.
C23_Witness ==
    /\ last.op = "postRental" /\ ~last.complete /\ last.code = 400
    /\ Len(cars) >= 1 /\ last.carId = cars[1].id
    /\ CurrentStatus(cars[1]) = "Available"

\* ---- the failed status write of a sale
\* The step in which the status write this sale request is waiting for
\* rejects and the request is answered.
SaleStatusWriteFails(r) ==
    /\ r.op = "postSale" /\ r.pc = "update"
    /\ CopiesIn(r, inflight') < CopiesIn(r, inflight)
    /\ last' = [r EXCEPT !.code = 500, !.pc = "done"]

\* C24: when the Sales row of a POST /api/sales has been appended and the
\* write of the car's status then fails, the response is 500, the
\* appended row stays in the Sales sheet and the Cars sheet, the status
\* cell included, is as it was.
C24_NoRollbackOfSale ==
    [][\A r \in InFlight :
          SaleStatusWriteFails(r) =>
             /\ r.writes = 1
             /\ \E k \in 1..Len(sales) :
                   sales[k].id = r.newId /\ sales[k].carId = r.carId
             /\ sales' = sales
             /\ cars' = cars]_vars

\* A sale was answered 500 after its append: its row is in the Sales
\* sheet and the status cell of its car is still empty.
C24_Witness ==
    /\ last.op = "postSale" /\ last.code = 500 /\ last.writes = 1
    /\ \E k \in 1..Len(sales) :
          sales[k].id = last.newId /\ sales[k].carId = last.carId
    /\ last.carIndex + 1 \in 1..Len(cars)
    /\ cars[last.carIndex + 1].statusCell = ""

\* ---- one response per request
\* The number of requests that leave the handlers in the step.
Ended == BagCardinality(inflight) - BagCardinality(inflight')

\* The step answers this in-flight request: it leaves and the response
\* recorded is its own.
Answers(r) ==
    /\ CopiesIn(r, inflight') = CopiesIn(r, inflight) - 1
    /\ last'.op = r.op /\ last'.pc = "done"
    /\ last'.carId = r.carId /\ last'.id = r.id
    /\ last'.writes \in {r.writes, r.writes + 1}
    /\ last'.writes = r.writes =>
          /\ last'.code = 500
          /\ UNCHANGED <<cars, sales, rentals, repairs>>
    /\ last'.writes = r.writes + 1 => last'.code \in {200, 201}

HundredPercent == 10000

\* The percentages the form is filled with: the points of a grid over
\* 0..100 and the values of defaultValues.
DefaultPercents == {3333, 3334}

Percents ==
    {(k * HundredPercent) \div PercentGrid : k \in 0..PercentGrid}
        \cup DefaultPercents

\* formSchema.refine: Math.abs(total - 100) < 0.0001.  The totals of the
\* percentages above differ from 100 by nothing or by 0.01 at least.
Accepted(v) ==
    v.azamPercentage + v.imranPercentage + v.aliPercentage = HundredPercent

\* (p / 100).toFixed(2): the fraction rounded to the nearest hundredth, a
\* tie taking the larger one, written with two decimals.
toFixed2(p) ==
    LET n == (p + 50) \div 100
    IN  NatToStr(n \div 100)
           \o <<".", Digits[((n \div 10) % 10) + 1], Digits[(n % 10) + 1]>>

\* Array.prototype.join(',') of three strings.
Join(parts) == parts[1] \o <<",">> \o parts[2] \o <<",">> \o parts[3]

\* The user fills in the three percentages.
EnterValues(a, b, c) ==
    /\ values = NoValues /\ investmentSplit = <<>>
    /\ values' = [azamPercentage |-> a, imranPercentage |-> b,
                  aliPercentage |-> c]
    /\ values' # NoValues
    /\ UNCHANGED <<cars, sales, rentals, repairs, now, inflight, last, started,
                   soldOK, existingIds, prefix, newId, query, params,
                   investmentSplit, existingRentals, requested, available,
                   driveVars>>

\* handleSubmit runs onSubmit when the schema accepts the values.
OnSubmit ==
    /\ values # NoValues /\ investmentSplit = <<>>
    /\ Accepted(values)
    /\ investmentSplit' = Join(<<toFixed2(values.azamPercentage),
                                 toFixed2(values.imranPercentage),
                                 toFixed2(values.aliPercentage)>>)
    /\ UNCHANGED <<cars, sales, rentals, repairs, now, inflight, last, started,
                   soldOK, existingIds, prefix, newId, query, params,
                   values, existingRentals, requested, available,
                   driveVars>>

SplitNext ==
    \/ /\ values = NoValues
       /\ \E a \in Percents, b \in Percents, c \in Percents :
             EnterValues(a, b, c)
    \/ OnSubmit

SplitSpec == Init /\ [][SplitNext]_vars

\* The fields of a comma-separated string.
RECURSIVE Fields(_)
Fields(str) ==
    LET commas == {i \in 1..Len(str) : str[i] = ","}
    IN  IF commas = {} THEN <<str>>
        ELSE LET i == CHOOSE j \in commas : \A k \in commas : j <= k
             IN  <<SubSeq(str, 1, i - 1)>> \o Fields(SubSeq(str, i + 1, Len(str)))

\* The value, in hundredths, of a decimal numeral with two decimals.
Hundredths(f) ==
    LET dot == CHOOSE i \in 1..Len(f) : f[i] = "."
    IN  100 * DigitsValue(f, dot - 1)
           + DigitsValue(SubSeq(f, dot + 1, Len(f)), Len(f) - dot)

\* C26: the investmentSplit string submitted for percentages that the
\* form accepts consists of three fractions whose sum is 1.0.
C26_SplitSumsToOne ==
    investmentSplit # <<>> =>
       LET fs == Fields(investmentSplit)
       IN  /\ Len(fs) = 3
           /\ Hundredths(fs[1]) + Hundredths(fs[2]) + Hundredths(fs[3]) = 100

\* ------------------------------------------------- AddRental: date ranges
\* The days the form and the loaded rentals range over.
ClientDays == 1..(MaxDay + 1)

ClientIntervals ==
    {[startDate |-> s, returnDate |-> e] : s \in ClientDays, e \in ClientDays}

RECURSIVE ListsOfLen(_)
ListsOfLen(n) ==
    IF n = 0 THEN {<<>>}
    ELSE {Append(l, r) : l \in ListsOfLen(n - 1), r \in ClientIntervals}

\* car.existingRentals: whatever start and return dates the Active rows
\* of the car carry, in sheet order.
RentalLists == UNION {ListsOfLen(n) : n \in 0..MaxExisting}

\* What isWithinInterval of date-fns does with an interval whose start is
\* after its end depends on the version installed: it throws a
\* RangeError (2.x) or it takes the two dates in order (3.x).
Libraries == {"throws", "sorts"}

\* isWithinInterval(date, { start, end }) for an interval it accepts.
isWithinInterval(d, r) ==
    /\ d >= Min(r.startDate, r.returnDate)
    /\ d <= Max({r.startDate, r.returnDate})

\* The callback of some() without its third disjunct (a mutation of the
\* code).
RentalHit_NoContainment(s, e, r) ==
    \/ isWithinInterval(s, r)
    \/ isWithinInterval(e, r)

\* The callback of some().
RentalHit(s, e, r) ==
    \/ isWithinInterval(s, r)
    \/ isWithinInterval(e, r)
    \/ (s <= r.startDate /\ e >= r.returnDate)

\* car.existingRentals.some(...): the rentals are visited in order up to
\* the first hit; the first call of isWithinInterval on a rental whose
\* dates are out of order throws when the library throws.
RECURSIVE Some(_, _, _, _)
Some(rs, s, e, lib) ==
    IF rs = <<>> THEN "false"
    ELSE LET r == Head(rs)
         IN  IF r.startDate > r.returnDate /\ lib = "throws" THEN "RangeError"
             ELSE IF RentalHit(s, e, r) THEN "true"
             ELSE Some(Tail(rs), s, e, lib)

\* isDateRangeAvailable for a car found in availableCars.
isDateRangeAvailable(s, e, rs, lib) ==
    LET hit == Some(rs, s, e, lib)
    IN  IF hit = "RangeError" THEN "RangeError"
        ELSE IF hit = "true" THEN "false"
        ELSE "true"

\* The cars are loaded and the user picks the dates.
EnterRental(iv, rs) ==
    /\ requested = NoInterval /\ available = ""
    /\ requested' = iv
    /\ existingRentals' = rs
    /\ UNCHANGED <<cars, sales, rentals, repairs, now, inflight, last, started,
                   soldOK, existingIds, prefix, newId, query, params,
                   values, investmentSplit, available, driveVars>>

\* onSubmit calls isDateRangeAvailable(values.startDate, values.returnDate,
\* values.carId).
CheckAvailability ==
    /\ requested # NoInterval /\ available = ""
    /\ \E lib \in Libraries :
          available' = isDateRangeAvailable(requested.startDate,
                                            requested.returnDate,
                                            existingRentals, lib)
    /\ UNCHANGED <<cars, sales, rentals, repairs, now, inflight, last, started,
                   soldOK, existingIds, prefix, newId, query, params,
                   values, investmentSplit, existingRentals, requested,
                   driveVars>>

AvailNext ==
    \/ /\ requested = NoInterval
       /\ \E iv \in ClientIntervals, rs \in RentalLists : EnterRental(iv, rs)
    \/ CheckAvailability

AvailSpec == Init /\ [][AvailNext]_vars

\* Some existing rental passes the inclusive overlap test against the
\* requested interval.
SomeOverlaps ==
    \E k \in 1..Len(existingRentals) :
        /\ requested.startDate <= existingRentals[k].returnDate
        /\ requested.returnDate >= existingRentals[k].startDate

WellFormed ==
    \A k \in 1..Len(existingRentals) :
        existingRentals[k].startDate <= existingRentals[k].returnDate

\* C27 (as stated): for a requested interval with startDate <= returnDate
\* and any list of existing rentals, isDateRangeAvailable returns false
\* exactly when some existing rental passes the inclusive overlap test.
C27_FalseIffOverlap ==
    (available # "" /\ requested.startDate <= requested.returnDate) =>
       (available = "false" <=> SomeOverlaps)

\* C27 (amended): for a requested interval with startDate <= returnDate
\* and a list of existing rentals each with startDate <= returnDate,
\* isDateRangeAvailable returns false when some existing rental passes
\* the inclusive overlap test and true when none does.
C27_FalseIffOverlapOfOrdered ==
    (/\ available # ""
     /\ requested.startDate <= requested.returnDate
     /\ WellFormed) =>
       available = (IF SomeOverlaps THEN "false" ELSE "true")

\* The requested interval covers an existing rental from a day before to
\* a day after, so that neither of its ends lies within the rental.
C27_Witness ==
    /\ available = "false"
    /\ Len(existingRentals) = 1 /\ WellFormed
    /\ requested.startDate < existingRentals[1].startDate
    /\ requested.returnDate > existingRentals[1].returnDate

\* ------------------------------------------------- generateId near 2^53
\* ID numbers around 2^53, and small ones.
WideNumbers ==
    {[TwoTo53 EXCEPT !.lo = TwoTo53.lo + d] : d \in (0 - 3)..4}
        \cup {One, [One EXCEPT !.lo = 9]}

\* IDs with these numbers, and an ID without a number.
WideIds == {prefix \o NumberToString(n) : n \in WideNumbers} \cup {prefix}

\* A create appends its row, whose column A holds the generated ID.
Create ==
    /\ newId # <<>>
    /\ Len(existingIds) <= MaxIds
    /\ existingIds' = Append(existingIds, newId)
    /\ newId' = <<>>
    /\ UNCHANGED <<cars, sales, rentals, repairs, now, inflight, last,
                   started, soldOK, prefix,
                   query, params, clientVars, driveVars>>

WideGenNext ==
    \/ \E id \in WideIds : EnterId(id)
    \/ Generate
    \/ Create

WideGenSpec == Init /\ [][WideGenNext]_vars

NoDuplicates(ids) ==
    \A i, j \in 1..Len(ids) : i # j => ids[i] # ids[j]

\* The number of every existing ID is below 2^53.
ExactIds ==
    \A id \in SeqElems(existingIds) :
        MagLess(NumberOrZero(ParseIntNumber(Replace(id, prefix))), TwoTo53)

DocumentsFolderReady ==
    /\ initPc = "documents"
    /\ documentsFolderId' = "CarDealership_Documents"
    /\ initPc' = "photos"
    /\ UNCHANGED <<cars, sales, rentals, repairs, now, inflight, last, started,
                   soldOK, existingIds, prefix, newId, query, params,
                   clientVars, photosFolderId, uploads>>

\* photosFolderId = await createOrGetFolder('CarDealership_Photos')
PhotosFolderReady ==
    /\ initPc = "photos"
    /\ photosFolderId' = "CarDealership_Photos"
    /\ initPc' = "done"
    /\ UNCHANGED <<cars, sales, rentals, repairs, now, inflight, last, started,
                   soldOK, existingIds, prefix, newId, query, params,
                   clientVars, documentsFolderId, uploads>>

\* createOrGetFolder rejects: the catch block logs the error and
\* initializeDriveFolders ends.
FolderInitFails ==
    /\ initPc \in {"documents", "photos"}
    /\ initPc' = "failed"
    /\ UNCHANGED <<cars, sales, rentals, repairs, now, inflight, last, started,
                   soldOK, existingIds, prefix, newId, query, params,
                   clientVars, documentsFolderId, photosFolderId, uploads>>

\* POST /api/cars with a file in this field: uploadFile is called with
\* the folder variable as it is.  The server listens from the end of the
\* module's evaluation, where initializeDriveFolders() has been called
\* and not awaited.
PostCarUpload(field) ==
    /\ Len(uploads) < MaxUploads
    /\ uploads' = Append(uploads,
                         [field |-> field,
                          folderId |-> IF field = "documents"
                                       THEN documentsFolderId
                                       ELSE photosFolderId])
    /\ UNCHANGED <<cars, sales, rentals, repairs, now, inflight, last, started,
                   soldOK, existingIds, prefix, newId, query, params,
                   clientVars, documentsFolderId, photosFolderId, initPc>>

DriveNext ==
    \/ DocumentsFolderReady
    \/ PhotosFolderReady
    \/ FolderInitFails
    \/ \E field \in {"documents", "photo"} : PostCarUpload(field)

DriveSpec == Init /\ [][DriveNext]_vars

\* C29: every upload made by POST /api/cars uses a folder identifier
\* that initializeDriveFolders has set.
C29_UploadsUseInitializedFolder ==
    \A i \in 1..Len(uploads) : uploads[i].folderId # Undefined

\* ---- falsy fields of an update
\* The body has the text field with a falsy value: 0 or ''.
FalsyText(x) == x # {} /\ ~Truthy(CHOOSE v \in x : TRUE)

\* The body has the numeric field with a value whose Number is falsy: 0,
\* '', or a string that is not a number.
FalsyNumber(x) ==
    x # {} /\ (NumberOfField(x).nan \/ NumberOfField(x).val = 0)

\* C30: in a PUT update a field supplied with a falsy value is treated
\* like an absent field: after the write the cell holds the value it had
\* before, so that no update sets a numeric field to 0 or clears a text
\* field.
C30_FalsyFieldKeepsCell ==
    (last.op \in PutOps /\ last.code = 200) =>
        LET u == last.updates
            cur == last.currentRow
            k == last.rowIndex + 1
        IN  /\ last.op = "putCar" =>
                  /\ FalsyText(u.make) => cars[k].make = cur.make
                  /\ FalsyNumber(u.purchasePrice) =>
                        cars[k].purchasePrice = cur.purchasePrice
            /\ last.op = "putRepair" =>
                  /\ FalsyText(u.carId) => repairs[k].carId = cur.carId
                  /\ FalsyNumber(u.cost) => repairs[k].cost = cur.cost
            /\ last.op = "putSale" =>
                  /\ FalsyText(u.carId) => sales[k].carId = cur.carId
                  /\ FalsyNumber(u.salePrice) =>
                        sales[k].salePrice = cur.salePrice
            /\ last.op = "putRental" =>
                  (FalsyText(u.carId) => rentals[k].carId = cur.carId)

====
